---------------------------- MODULE Spec2Model ----------------------------
(***************************************************************************)
(* A model of the fallback download engine of soundcloud-likes-backup:     *)
(* SoundCloudDownloader (downloader.py) and the loop that drives it,       *)
(* SoundCloudBackup.process_tracks (main.py).                              *)
(*                                                                         *)
(* A string is a sequence of one-character strings.  A path is a sequence  *)
(* of segments below download_dir, so <<>> is download_dir itself.  A file *)
(* body is a sequence of chunks, each standing for the bytes of one        *)
(* content.read(8192).                                                     *)
(***************************************************************************)
EXTENDS Naturals, Sequences, FiniteSets

VARIABLES
    \* ---- the filename sanitizer, exercised alone (SanSpec)
    sanPc,        \* "in" | "once" | "twice" | "off"
    sanIn,        \* the raw filename
    sanOut,       \* _sanitize_filename(sanIn)
    sanTwice,     \* _sanitize_filename(sanOut)
    \* ---- the program's state and its surroundings (Spec)
    tracks,       \* the list handed to process_tracks
    rootExists,   \* download_dir is a directory
    dirs,         \* the directories below download_dir
    files,        \* path -> body, the regular files below download_dir
    pc,           \* the position of the single flow of control
    idx,          \* process_tracks: index of the current track
    svc,          \* download_track: index of the current service
    ret,          \* the value the current service returned
    \* ---- observations of the current download_track call
    result,       \* "None" | "Skipped" | "Succeeded" | "Exhausted" | "Raised"
    log,          \* what download_track and process_tracks logged for the
                  \* call, oldest first
    invoked,      \* the services the call invoked, in order
    http,         \* the call issued a GET
    inflight,     \* the service attempts that began and did not yet return
    start,        \* the filesystem as the call found it
    called,       \* the track indices download_track was called with
    dests,        \* output_path of every call that computed it
    partials,     \* the paths whose last writer failed while streaming
    \* ---- observations of the current service call
    convGets,     \* conversion GETs issued
    dlGets,       \* download GETs issued
    convOk,       \* the conversion GET answered 200
    linkOk,       \* an element with a non-empty href was extracted
    dlOk,         \* the download GET answered 200
    opened,       \* output_path was opened for writing
    eof,          \* content.read returned the empty chunk
    streamed,     \* the chunks read from the download response
    errLogged,    \* the service logged its "Error in <service>" line
    hadPartial    \* output_path was there when the service was called

sanVars == <<sanPc, sanIn, sanOut, sanTwice>>
fsVars == <<rootExists, dirs, files, partials>>
callVars == <<result, log, invoked, http, inflight, start, called, dests>>
svcVars == <<convGets, dlGets, convOk, linkOk, dlOk, opened, eof, streamed,
            errLogged, hadPartial>>
vars == <<sanVars, tracks, fsVars, pc, idx, svc, ret, callVars, svcVars>>

-----------------------------------------------------------------------------
(* Bounds of the model.                                                    *)

MaxPrefixLen == 2      \* sanitizer inputs: length of the enumerated prefix
MaxOver == 1           \* sanitizer inputs: characters past the length limit
MaxTracks == 2         \* length of the track list
MaxChunks == 2         \* non-empty chunks of one download response

-----------------------------------------------------------------------------
(* _sanitize_filename, downloader.py 58-65.                                *)

\* the character class of re.sub(r'[<>:"/\\|?*]', '', filename)
InvalidChars == {"<", ">", ":", "\"", "/", "\\", "|", "?", "*"}

\* filename[:200]
MaxNameLen == 200

\* re.sub(r'[<>:"/\\|?*]', '', filename) with count=1: only the first match goes
StripInvalidFirstOnly(s) ==
    IF \E i \in 1..Len(s) : s[i] \in InvalidChars
    THEN LET k == CHOOSE i \in 1..Len(s) :
                      /\ s[i] \in InvalidChars
                      /\ \A j \in 1..(i - 1) : s[j] \notin InvalidChars
         IN  SubSeq(s, 1, k - 1) \o SubSeq(s, k + 1, Len(s))
    ELSE s

\* re.sub(r'[<>:"/\\|?*]', '', filename)
StripInvalid(s) ==
    LET Valid(c) == c \notin InvalidChars
    IN  SelectSeq(s, Valid)

\* filename.replace(' ', '_') lost: the spaces stay
ReplaceSpacesLost(s) == s

\* filename.replace(' ', '_')
ReplaceSpaces(s) ==
    [i \in 1..Len(s) |-> IF s[i] = " " THEN "_" ELSE s[i]]

\* filename[:200]
Truncate(s) ==
    IF Len(s) <= MaxNameLen THEN s ELSE SubSeq(s, 1, MaxNameLen)

sanitize_filename(s) == Truncate(ReplaceSpaces(StripInvalid(s)))

-----------------------------------------------------------------------------
(* The sanitizer alone: SanSpec draws a raw filename and applies           *)
(* _sanitize_filename to it, then to its own output.                       *)

SanAlphabet == InvalidChars \cup {" ", "_", "a"}

RECURSIVE SeqsUpTo(_, _)
SeqsUpTo(S, n) ==
    IF n = 0 THEN {<<>>}
    ELSE LET shorter == SeqsUpTo(S, n - 1)
         IN  shorter \cup {Append(s, c) : s \in {t \in shorter : Len(t) = n - 1}, c \in S}

Pad(c, n) == [i \in 1..n |-> c]

\* "My/Song: Final?" and what the spec expects of it
MySongRaw ==
    <<"M", "y", "/", "S", "o", "n", "g", ":", " ", "F", "i", "n", "a", "l", "?">>
MySongClean ==
    <<"M", "y", "S", "o", "n", "g", "_", "F", "i", "n", "a", "l">>

\* short names over the whole alphabet, the same followed by a long run of one
\* character that ends around the length limit, and the spec's scenario
SanInputs ==
    LET prefixes == SeqsUpTo(SanAlphabet, MaxPrefixLen)
        runs == {Pad(c, n) : c \in {"a", " ", "/"},
                             n \in (MaxNameLen - 1)..(MaxNameLen + MaxOver)}
    IN  prefixes \cup {p \o r : p \in prefixes, r \in runs} \cup {MySongRaw}

SanInit ==
    /\ sanPc = "in"
    /\ sanIn \in SanInputs
    /\ sanOut = <<>>
    /\ sanTwice = <<>>
    /\ tracks = <<>>
    /\ rootExists = TRUE
    /\ dirs = {}
    /\ files = <<>>
    /\ partials = {}
    /\ pc = "off"
    /\ idx = 0
    /\ svc = 0
    /\ ret = FALSE
    /\ result = "None"
    /\ log = <<>>
    /\ invoked = <<>>
    /\ http = FALSE
    /\ inflight = {}
    /\ start = [root |-> TRUE, artist |-> "absent", present |-> FALSE,
                partial |-> FALSE, body |-> <<>>]
    /\ called = <<>>
    /\ dests = <<>>
    /\ convGets = 0
    /\ dlGets = 0
    /\ convOk = FALSE
    /\ linkOk = FALSE
    /\ dlOk = FALSE
    /\ opened = FALSE
    /\ eof = FALSE
    /\ streamed = <<>>
    /\ errLogged = FALSE
    /\ hadPartial = FALSE

engineVars == <<tracks, fsVars, pc, idx, svc, ret, callVars, svcVars>>

\* sanitized = self._sanitize_filename(raw)
SanApply ==
    /\ sanPc = "in"
    /\ sanOut' = sanitize_filename(sanIn)
    /\ sanPc' = "once"
    /\ UNCHANGED <<sanIn, sanTwice, engineVars>>

\* again = self._sanitize_filename(sanitized)
SanReapply ==
    /\ sanPc = "once"
    /\ sanTwice' = sanitize_filename(sanOut)
    /\ sanPc' = "twice"
    /\ UNCHANGED <<sanIn, sanOut, engineVars>>

SanNext == SanApply \/ SanReapply

SanSpec == SanInit /\ [][SanNext]_vars

-----------------------------------------------------------------------------
(* Paths and the filesystem below download_dir.                            *)

\* pathlib's dir / segment: an empty or "." segment adds nothing
Child(dir, seg) ==
    IF seg = <<>> \/ seg = <<".">> THEN dir ELSE Append(dir, seg)

\* the ".mp3" of f"{sanitized_title}.mp3"
Mp3 == <<".", "m", "p", "3">>

\* artist_dir = self.download_dir / self._sanitize_filename(track['artist'])
artist_dir(t) == Child(<<>>, sanitize_filename(t.artist))

\* output_path = artist_dir / f"{sanitized_title}.mp3"
output_path(t) == Child(artist_dir(t), sanitize_filename(t.title) \o Mp3)

IsFile(p) == p \in DOMAIN files

IsDir(p) == IF p = <<>> THEN rootExists ELSE p \in dirs

\* output_path.exists()
Exists(p) == IsDir(p) \/ IsFile(p)

\* what a path names: "absent", "dir" or "file"
NodeAt(p) == IF IsDir(p) THEN "dir" ELSE IF IsFile(p) THEN "file" ELSE "absent"

\* artist_dir.mkdir(parents=True, exist_ok=True): a missing download_dir is
\* no error any more
MkdirErrorParents(p) ==
    IF IsDir(p) THEN "none"
    ELSE IF IsFile(p) THEN "FileExistsError"
    ELSE "none"

\* artist_dir.mkdir(exist_ok=True): without parents=True a missing parent is
\* FileNotFoundError, and exist_ok forgives an existing directory only, so a
\* regular file of that name is FileExistsError.  When artist_dir is
\* download_dir itself (an empty sanitized artist) and download_dir is
\* missing, mkdir creates it.
MkdirError(p) ==
    IF IsDir(p) THEN "none"
    ELSE IF IsFile(p) THEN "FileExistsError"
    ELSE IF p # <<>> /\ ~rootExists THEN "FileNotFoundError"
    ELSE "none"

\* the file map with the body of p set to b
WithFile(p, b) ==
    [q \in DOMAIN files \cup {p} |-> IF q = p THEN b ELSE files[q]]

-----------------------------------------------------------------------------
(* The track records the collector may hand over (main.py 162-170): two    *)
(* records whose titles differ in a space and an underscore, under an      *)
(* artist name that sanitizes to the empty string, a record whose artist   *)
(* spells the file name those two are stored under, and a record that      *)
(* shares nothing with the others.                                         *)

Url == <<"u">>

Catalogue ==
    { [title |-> <<"a", " ", "b">>, artist |-> <<"?">>, url |-> Url],
      [title |-> <<"a", "_", "b">>, artist |-> <<"?">>, url |-> Url],
      [title |-> <<"c">>, artist |-> <<"a", "_", "b", ".", "m", "p", "3">>, url |-> Url],
      [title |-> <<"s", "/", "t">>, artist |-> <<"D", " ", "J">>, url |-> Url] }

\* download_services, downloader.py 40-44
download_services == <<"scdownloader", "soundcloudmp3", "downloadsound">>

\* the chunks a download response may deliver
ChunkVals == {"c1", "c2"}

NoStart ==
    [root |-> TRUE, artist |-> "absent", present |-> FALSE, partial |-> FALSE,
     body |-> <<>>]

\* SoundCloudDownloader(download_dir) keeps the path and creates nothing
\* (downloader.py 12-17), so download_dir may or may not be there; nothing
\* has been downloaded yet
Init ==
    /\ sanPc = "off"
    /\ sanIn = <<>>
    /\ sanOut = <<>>
    /\ sanTwice = <<>>
    /\ tracks \in SeqsUpTo(Catalogue, MaxTracks)
    /\ rootExists \in BOOLEAN
    /\ dirs = {}
    /\ files = <<>>
    /\ partials = {}
    /\ pc = "pt_loop"
    /\ idx = 0
    /\ svc = 0
    /\ ret = FALSE
    /\ result = "None"
    /\ log = <<>>
    /\ invoked = <<>>
    /\ http = FALSE
    /\ inflight = {}
    /\ start = NoStart
    /\ called = <<>>
    /\ dests = <<>>
    /\ convGets = 0
    /\ dlGets = 0
    /\ convOk = FALSE
    /\ linkOk = FALSE
    /\ dlOk = FALSE
    /\ opened = FALSE
    /\ eof = FALSE
    /\ streamed = <<>>
    /\ errLogged = FALSE
    /\ hadPartial = FALSE

-----------------------------------------------------------------------------
(* process_tracks, main.py 177-184.                                        *)

\* logger.info / logger.error
Logged(kind, who) == Append(log, [kind |-> kind, who |-> who])

\* the filesystem as download_track finds it
Snapshot(t) ==
    [root |-> rootExists,
     artist |-> NodeAt(artist_dir(t)),
     present |-> Exists(output_path(t)),
     partial |-> output_path(t) \in partials,
     body |-> IF IsFile(output_path(t)) THEN files[output_path(t)] ELSE <<>>]

\* for track in tqdm(tracks): await downloader.download_track(track)
ProcessTracksNext ==
    /\ pc = "pt_loop"
    /\ idx < Len(tracks)
    /\ idx' = idx + 1
    /\ pc' = "dt_begin"
    /\ called' = Append(called, idx + 1)
    /\ start' = Snapshot(tracks[idx + 1])
    /\ result' = "None"
    /\ log' = <<>>
    /\ invoked' = <<>>
    /\ http' = FALSE
    /\ svc' = 0
    /\ ret' = FALSE
    /\ convGets' = 0
    /\ dlGets' = 0
    /\ convOk' = FALSE
    /\ linkOk' = FALSE
    /\ dlOk' = FALSE
    /\ opened' = FALSE
    /\ eof' = FALSE
    /\ streamed' = <<>>
    /\ errLogged' = FALSE
    /\ hadPartial' = FALSE
    /\ UNCHANGED <<sanVars, tracks, fsVars, inflight, dests>>

\* the list is used up: the async with block ends
ProcessTracksDone ==
    /\ pc = "pt_loop"
    /\ idx = Len(tracks)
    /\ pc' = "done"
    /\ UNCHANGED <<sanVars, tracks, fsVars, idx, svc, ret, callVars, svcVars>>

\* no try/except around download_track: the exception ends process_tracks
ProcessTracksExceptMissing ==
    /\ pc = "pt_except"
    /\ pc' = "done"
    /\ UNCHANGED <<sanVars, tracks, fsVars, idx, svc, ret, callVars, svcVars>>

\* except Exception as e: logger.error(f"Error downloading track ...")
ProcessTracksExcept ==
    /\ pc = "pt_except"
    /\ log' = Logged("error_downloading_track", "process_tracks")
    /\ pc' = "pt_loop"
    /\ UNCHANGED <<sanVars, tracks, fsVars, idx, svc, ret, result, invoked, http,
                   inflight, start, called, dests, svcVars>>

-----------------------------------------------------------------------------
(* download_track, downloader.py 27-56.                                    *)

\* lines 29-44 without the presence check of lines 35-37
DownloadTrackBeginNoCheck ==
    /\ pc = "dt_begin"
    /\ LET t == tracks[idx]
           adir == artist_dir(t)
           out == output_path(t)
       IN  IF MkdirError(adir) # "none"
           THEN /\ result' = "Raised"
                /\ pc' = "pt_except"
                /\ UNCHANGED <<rootExists, dirs, log, dests>>
           ELSE /\ rootExists' = (rootExists \/ adir = <<>>)
                /\ dirs' = IF adir = <<>> THEN dirs ELSE dirs \cup {adir}
                /\ dests' = Append(dests, [track |-> idx, path |-> out])
                /\ pc' = "dt_for"
                /\ UNCHANGED <<log, result>>
    /\ UNCHANGED <<sanVars, tracks, files, partials, idx, svc, ret, invoked, http,
                   inflight, start, called, svcVars>>

\* lines 29-44: the path, mkdir, and the presence check
DownloadTrackBegin ==
    /\ pc = "dt_begin"
    /\ LET t == tracks[idx]
           adir == artist_dir(t)
           out == output_path(t)
       IN  IF MkdirError(adir) # "none"
           THEN /\ result' = "Raised"
                /\ pc' = "pt_except"
                /\ UNCHANGED <<rootExists, dirs, log, dests>>
           ELSE /\ rootExists' = (rootExists \/ adir = <<>>)
                /\ dirs' = IF adir = <<>> THEN dirs ELSE dirs \cup {adir}
                /\ dests' = Append(dests, [track |-> idx, path |-> out])
                /\ IF Exists(out)
                   THEN /\ log' = Logged("already_exists", "download_track")
                        /\ result' = "Skipped"
                        /\ pc' = "pt_loop"
                   ELSE /\ pc' = "dt_for"
                        /\ UNCHANGED <<log, result>>
    /\ UNCHANGED <<sanVars, tracks, files, partials, idx, svc, ret, invoked, http,
                   inflight, start, called, svcVars>>

\* lines 46-48: the next service is called
DownloadTrackNextService ==
    /\ pc = "dt_for"
    /\ svc < Len(download_services)
    /\ svc' = svc + 1
    /\ invoked' = Append(invoked, svc + 1)
    /\ inflight' = inflight \cup {<<idx, svc + 1>>}
    /\ pc' = "r_conv"
    /\ convGets' = 0
    /\ dlGets' = 0
    /\ convOk' = FALSE
    /\ linkOk' = FALSE
    /\ dlOk' = FALSE
    /\ opened' = FALSE
    /\ eof' = FALSE
    /\ streamed' = <<>>
    /\ errLogged' = FALSE
    /\ hadPartial' = Exists(output_path(tracks[idx]))
    /\ UNCHANGED <<sanVars, tracks, fsVars, idx, ret, result, log, http, start,
                   called, dests>>

\* line 56: every service was tried
DownloadTrackExhausted ==
    /\ pc = "dt_for"
    /\ svc = Len(download_services)
    /\ log' = Logged("failed_to_download", "download_track")
    /\ result' = "Exhausted"
    /\ pc' = "pt_loop"
    /\ UNCHANGED <<sanVars, tracks, fsVars, idx, svc, ret, invoked, http, inflight,
                   start, called, dests, svcVars>>

\* lines 48-54: the service returned or raised; success ends the call, a
\* failure or an exception (which is logged) goes on to the next service
DownloadTrackServiceReturn ==
    /\ pc \in {"dt_ret", "dt_raised"}
    /\ inflight' = inflight \ {<<idx, svc>>}
    /\ IF pc = "dt_raised"
       THEN /\ log' = Logged("error_with_service", download_services[svc])
            /\ pc' = "dt_for"
            /\ UNCHANGED result
       ELSE IF ret
       THEN /\ log' = Logged("successfully_downloaded", "download_track")
            /\ result' = "Succeeded"
            /\ pc' = "pt_loop"
       ELSE /\ pc' = "dt_for"
            /\ UNCHANGED <<log, result>>
    /\ UNCHANGED <<sanVars, tracks, fsVars, idx, svc, ret, invoked, http, start,
                   called, dests, svcVars>>

-----------------------------------------------------------------------------
(* A service, downloader.py 67-101 (_try_scdownloader); lines 103-137      *)
(* (_try_soundcloudmp3) and 139-173 (_try_downloadsound) are the same code *)
(* with another host, another class attribute and another name in the log. *)
(* What the network and the disk answer is chosen by the environment.      *)

\* a step that does not go on: return False, or an exception on its way to
\* the except of lines 99-101
ServiceFails(raised) ==
    /\ pc' = IF raised THEN "r_except" ELSE "dt_ret"
    /\ ret' = FALSE
    /\ UNCHANGED errLogged

\* except aiohttp.ClientError in place of except Exception: the exception
\* leaves the service
ServiceExceptNarrow ==
    /\ pc = "r_except"
    /\ pc' = "dt_raised"
    /\ UNCHANGED <<sanVars, tracks, fsVars, idx, svc, ret, callVars, svcVars>>

\* lines 99-101: except Exception: logger.error(...); return False
ServiceExcept ==
    /\ pc = "r_except"
    /\ errLogged' = TRUE
    /\ ret' = FALSE
    /\ pc' = "dt_ret"
    /\ UNCHANGED <<sanVars, tracks, fsVars, idx, svc, callVars, convGets, dlGets,
                   convOk, linkOk, dlOk, opened, eof, streamed, hadPartial>>

\* lines 70-72: the conversion GET and its status
ServiceConvGet ==
    /\ pc = "r_conv"
    /\ convGets' = convGets + 1
    /\ http' = TRUE
    /\ \E answer \in {"raise", "non200", "ok"} :
          IF answer = "ok"
          THEN /\ convOk' = TRUE
               /\ pc' = "r_parse"
               /\ UNCHANGED <<ret, errLogged>>
          ELSE /\ ServiceFails(answer = "raise")
               /\ UNCHANGED convOk
    /\ UNCHANGED <<sanVars, tracks, fsVars, idx, svc, result, log, invoked, inflight,
                   start, called, dests, hadPartial, dlGets, linkOk, dlOk, opened, eof, streamed>>

\* lines 74-84: the page is read and parsed, the element and its href looked up
ServiceParse ==
    /\ pc = "r_parse"
    /\ \E answer \in {"raise", "no_element", "no_href", "ok"} :
          IF answer = "ok"
          THEN /\ linkOk' = TRUE
               /\ pc' = "r_dl"
               /\ UNCHANGED <<ret, errLogged>>
          ELSE /\ ServiceFails(answer = "raise")
               /\ UNCHANGED linkOk
    /\ UNCHANGED <<sanVars, tracks, fsVars, idx, svc, result, log, invoked, http,
                   inflight, start, called, dests, hadPartial, convGets, dlGets, convOk, dlOk,
                   opened, eof, streamed>>

\* lines 87-89: the download GET and its status
ServiceDlGet ==
    /\ pc = "r_dl"
    /\ dlGets' = dlGets + 1
    /\ http' = TRUE
    /\ \E answer \in {"raise", "non200", "ok"} :
          IF answer = "ok"
          THEN /\ dlOk' = TRUE
               /\ pc' = "r_open"
               /\ UNCHANGED <<ret, errLogged>>
          ELSE /\ ServiceFails(answer = "raise")
               /\ UNCHANGED dlOk
    /\ UNCHANGED <<sanVars, tracks, fsVars, idx, svc, result, log, invoked, inflight,
                   start, called, dests, hadPartial, convGets, convOk, linkOk, opened, eof,
                   streamed>>

\* open(output_path, 'ab') in place of 'wb': what is there is kept
ServiceOpenAppend ==
    /\ pc = "r_open"
    /\ \E answer \in {"raise", "ok"} :
          IF answer = "ok"
          THEN /\ files' = IF IsFile(output_path(tracks[idx])) THEN files
                            ELSE WithFile(output_path(tracks[idx]), <<>>)
               /\ partials' = partials \ {output_path(tracks[idx])}
               /\ opened' = TRUE
               /\ pc' = "r_read"
               /\ UNCHANGED <<ret, errLogged>>
          ELSE /\ ServiceFails(TRUE)
               /\ UNCHANGED <<files, partials, opened>>
    /\ UNCHANGED <<sanVars, tracks, rootExists, dirs, idx, svc, result, log, invoked,
                   http, inflight, start, called, dests, hadPartial, convGets, dlGets,
                   convOk, linkOk, dlOk, eof, streamed>>

\* line 91: open(output_path, 'wb') creates the file or empties it
ServiceOpen ==
    /\ pc = "r_open"
    /\ \E answer \in {"raise", "ok"} :
          IF answer = "ok"
          THEN /\ files' = WithFile(output_path(tracks[idx]), <<>>)
               /\ partials' = partials \ {output_path(tracks[idx])}
               /\ opened' = TRUE
               /\ pc' = "r_read"
               /\ UNCHANGED <<ret, errLogged>>
          ELSE /\ ServiceFails(TRUE)
               /\ UNCHANGED <<files, partials, opened>>
    /\ UNCHANGED <<sanVars, tracks, rootExists, dirs, idx, svc, result, log, invoked,
                   http, inflight, start, called, dests, hadPartial, convGets, dlGets, convOk,
                   linkOk, dlOk, eof, streamed>>

\* lines 92-96 followed by a clean-up the code does not have: a failed stream
\* removes the file it began
ServiceReadCleansUp ==
    /\ pc = "r_read"
    /\ LET out == output_path(tracks[idx])
       IN  \/ \E c \in ChunkVals :
                 /\ Len(streamed) < MaxChunks
                 /\ streamed' = Append(streamed, c)
                 /\ files' = WithFile(out, Append(files[out], c))
                 /\ UNCHANGED <<partials, eof, ret, errLogged, pc>>
           \/ /\ eof' = TRUE
              /\ ret' = TRUE
              /\ pc' = "dt_ret"
              /\ UNCHANGED <<files, partials, streamed, errLogged>>
           \/ /\ ServiceFails(TRUE)
              /\ files' = [q \in DOMAIN files \ {out} |-> files[q]]
              /\ UNCHANGED <<partials, streamed, eof>>
    /\ UNCHANGED <<sanVars, tracks, rootExists, dirs, idx, svc, result, log, invoked,
                   http, inflight, start, called, dests, hadPartial, convGets, dlGets, convOk,
                   linkOk, dlOk, opened>>

\* lines 92-98: one content.read(8192): a chunk, which is written; the empty
\* chunk, which ends the loop and returns True; or an exception, which leaves
\* what was written where it is
ServiceRead ==
    /\ pc = "r_read"
    /\ LET out == output_path(tracks[idx])
       IN  \/ \E c \in ChunkVals :
                 /\ Len(streamed) < MaxChunks
                 /\ streamed' = Append(streamed, c)
                 /\ files' = WithFile(out, Append(files[out], c))
                 /\ UNCHANGED <<partials, eof, ret, errLogged, pc>>
           \/ /\ eof' = TRUE
              /\ ret' = TRUE
              /\ pc' = "dt_ret"
              /\ UNCHANGED <<files, partials, streamed, errLogged>>
           \/ /\ ServiceFails(TRUE)
              /\ partials' = partials \cup {out}
              /\ UNCHANGED <<files, streamed, eof>>
    /\ UNCHANGED <<sanVars, tracks, rootExists, dirs, idx, svc, result, log, invoked,
                   http, inflight, start, called, dests, hadPartial, convGets, dlGets, convOk,
                   linkOk, dlOk, opened>>

-----------------------------------------------------------------------------

Next ==
    \/ ProcessTracksNext
    \/ ProcessTracksDone
    \/ ProcessTracksExcept
    \/ DownloadTrackBegin
    \/ DownloadTrackNextService
    \/ DownloadTrackExhausted
    \/ DownloadTrackServiceReturn
    \/ ServiceConvGet
    \/ ServiceParse
    \/ ServiceDlGet
    \/ ServiceOpen
    \/ ServiceRead
    \/ ServiceExcept

Spec == Init /\ [][Next]_vars

-----------------------------------------------------------------------------
(* The claims.                                                             *)

\* output_path of the current call
Dest == output_path(tracks[idx])

\* the (artist, title) pair of a track record
Pair(t) == <<t.artist, t.title>>

\* how often download_track or process_tracks logged a line of this kind
LogCount(kind) == Cardinality({i \in 1..Len(log) : log[i].kind = kind})

\* the last line logged is of this kind
LastLogged(kind) == Len(log) > 0 /\ log[Len(log)].kind = kind

\* the current call found an artist directory it cannot create: the name is
\* taken by a regular file, or download_dir is missing and is not the
\* directory asked for
MkdirFailsAtStart ==
    \/ start.artist = "file"
    \/ start.artist = "absent" /\ ~start.root /\ artist_dir(tracks[idx]) # <<>>

\* C1: in a call that found no destination file, the services are invoked in
\* priority order, each once, up to and including the first that succeeds and
\* none after it; when the call has succeeded the destination file holds
\* exactly the chunks the succeeding service streamed, whatever an earlier,
\* failing service had written there.
C1_FallbackOrder ==
    idx > 0 =>
        /\ invoked = [i \in 1..svc |-> i]
        /\ svc <= Len(download_services)
        /\ result = "Succeeded" =>
              /\ ~start.present
              /\ ret /\ eof
              /\ IsFile(Dest)
              /\ files[Dest] = streamed

\* C1, its case: the third service succeeded where an earlier one had left a
\* file behind
C1_Witness ==
    /\ idx > 0
    /\ result = "Succeeded"
    /\ svc = 3
    /\ hadPartial
    /\ streamed = <<"c1">>

\* C2: when every service failed, the destination file does not exist and
\* "Failed to download track" was logged exactly once.
C2_ExhaustedLeavesNoFile ==
    (idx > 0 /\ result = "Exhausted") =>
        /\ ~Exists(Dest)
        /\ LogCount("failed_to_download") = 1

\* C3: a call that finds its destination present invokes no service, issues
\* no GET and leaves the destination as it was; it ends as Skipped.
C3_ExistingFileUntouched ==
    (idx > 0 /\ start.present) =>
        /\ invoked = <<>>
        /\ ~http
        /\ convGets = 0 /\ dlGets = 0
        /\ Exists(Dest)
        /\ IsFile(Dest) => files[Dest] = start.body
        /\ result \in {"None", "Skipped"}

\* C3, its case: a call was skipped over a file that has content
C3_Witness ==
    /\ idx > 0
    /\ pc = "pt_loop"
    /\ result = "Skipped"
    /\ start.present
    /\ start.body # <<>>
    /\ files[Dest] = start.body

\* C4 as stated: download_track never raises; every call ends as Skipped,
\* Succeeded or Exhausted.
C4_NeverRaises ==
    (idx > 0 /\ pc \in {"pt_loop", "pt_except", "done"}) =>
        result \in {"Skipped", "Succeeded", "Exhausted"}

\* C4, amended: download_track raises exactly when the artist directory
\* cannot be created (its name is taken by a regular file, or download_dir is
\* missing); every other call returns as Skipped, Succeeded or Exhausted, and
\* the line of that outcome is the last one it logged.
C4_RaisesOnlyOnMkdir ==
    (idx > 0 /\ pc # "dt_begin") =>
        /\ result = "Raised" <=> MkdirFailsAtStart
        /\ pc \in {"pt_loop", "pt_except", "done"} =>
              result \in {"Skipped", "Succeeded", "Exhausted", "Raised"}
        /\ pc = "pt_except" => result = "Raised"
        /\ result = "Skipped" => LastLogged("already_exists")
        /\ result = "Succeeded" => LastLogged("successfully_downloaded")
        /\ result = "Exhausted" => LastLogged("failed_to_download")

\* C4, its case: a call raised because the artist's name is a regular file
C4_Witness ==
    /\ idx > 0
    /\ result = "Raised"
    /\ start.artist = "file"
    /\ start.root

\* C5: two calls for records whose (artist, title) pairs differ compute
\* different destination paths.
C5_DistinctTracksDistinctPaths ==
    \A i, j \in 1..Len(dests) :
        Pair(tracks[dests[i].track]) # Pair(tracks[dests[j].track])
            => dests[i].path # dests[j].path

\* the nine characters the sanitizer is said to delete
C6_Disallowed == {"<", ">", ":", "\"", "/", "\\", "|", "?", "*"}

\* the characters of s from lo to hi, in order: a disallowed character is
\* dropped, a space becomes an underscore, any other character is kept
RECURSIVE C6_Cleaned(_, _, _)
C6_Cleaned(s, lo, hi) ==
    IF lo > hi THEN <<>>
    ELSE IF lo = hi
         THEN IF s[lo] \in C6_Disallowed THEN <<>>
              ELSE IF s[lo] = " " THEN <<"_">>
              ELSE <<s[lo]>>
    ELSE LET mid == (lo + hi) \div 2
         IN  C6_Cleaned(s, lo, mid) \o C6_Cleaned(s, mid + 1, hi)

\* the first n characters of s
C6_FirstN(s, n) == [i \in 1..(IF Len(s) < n THEN Len(s) ELSE n) |-> s[i]]

\* C6: the output of _sanitize_filename holds none of < > : " / \ | ? * and
\* no space, is at most 200 characters long, and is the input with the nine
\* characters deleted and each space turned into an underscore, cut to its
\* first 200 characters; "My/Song: Final?" gives "MySong_Final".
C6_SanitizeOutput ==
    sanPc \in {"once", "twice"} =>
        /\ \A i \in 1..Len(sanOut) : sanOut[i] \notin C6_Disallowed /\ sanOut[i] # " "
        /\ Len(sanOut) <= 200
        /\ sanOut = C6_FirstN(C6_Cleaned(sanIn, 1, Len(sanIn)), 200)
        /\ sanIn = MySongRaw => sanOut = MySongClean

\* C6, its case: an input with a disallowed character and a space that is
\* still too long once they are dealt with, cut to 200
C6_Witness ==
    /\ sanPc = "once"
    /\ Len(sanIn) > 201
    /\ sanIn[1] \in C6_Disallowed
    /\ sanIn[2] = " "
    /\ Len(sanOut) = 200
    /\ sanOut[1] = "_"

\* C7: _sanitize_filename applied to its own output changes nothing, for long
\* inputs too; an input of disallowed characters alone gives the empty string.
C7_Idempotent ==
    sanPc = "twice" =>
        /\ sanTwice = sanOut
        /\ (\A i \in 1..Len(sanIn) : sanIn[i] \in C6_Disallowed) => sanOut = <<>>

\* C7, its case: the sanitizer was applied twice to an input that is longer
\* than 200 characters and that the first application changed
C7_Witness ==
    /\ sanPc = "twice"
    /\ Len(sanIn) > 200
    /\ sanOut # sanIn
    /\ Len(sanOut) = 200
    /\ sanTwice = sanOut

\* a service call is under way or has just ended
InService ==
    pc \in {"r_conv", "r_parse", "r_dl", "r_open", "r_read", "r_except", "dt_ret",
            "dt_raised"}

\* C8: one service call issues at most one conversion GET and at most one
\* download GET; the download GET comes only after the conversion GET
\* answered 200 and a link was extracted; the file is opened only after the
\* download GET answered 200; the call returns True only after the stream
\* ended, and False in every other case; it never raises to download_track.
C8_ServiceProtocol ==
    InService =>
        /\ convGets <= 1 /\ dlGets <= 1
        /\ convOk => convGets = 1
        /\ linkOk => convOk
        /\ dlGets = 1 => (convOk /\ linkOk)
        /\ dlOk => dlGets = 1
        /\ opened => dlOk
        /\ streamed # <<>> => opened
        /\ eof => opened
        /\ pc # "dt_raised"
        /\ pc = "dt_ret" => (ret <=> eof)
        /\ (pc = "dt_ret" /\ errLogged) => ~ret

\* C8, its case: a service returned True after both GETs and a stream of
\* chunks
C8_Witness ==
    /\ pc = "dt_ret"
    /\ ret
    /\ convGets = 1 /\ dlGets = 1
    /\ streamed = <<"c1", "c2">>

\* what C9 says of every state
C9_State ==
    /\ called = [i \in 1..idx |-> i]
    /\ Cardinality(inflight) <= 1
    /\ inflight \subseteq {<<idx, svc>>}
    /\ pc \in {"pt_loop", "dt_begin", "pt_except", "done"} => inflight = {}
    /\ pc = "done" => idx = Len(tracks)

\* what C9 says of every step: the next call begins only when the one before
\* it has returned or raised
C9_Step ==
    idx' # idx =>
        /\ idx' = idx + 1
        /\ idx > 0 => result \in {"Skipped", "Succeeded", "Exhausted", "Raised"}
        /\ inflight = {}

\* C9: process_tracks calls download_track once for every track, in list
\* order, the next call only after the one before it has returned or raised,
\* with at most one service attempt under way at any time; no outcome of a
\* call, an exception included, keeps a later track from being processed.
C9_SequentialComplete == [](pc # "off" => C9_State) /\ [][C9_Step]_vars

\* C9, its case: the first call raised (download_dir was still missing when
\* the second one began, and the first track's artist directory is not
\* download_dir), and the second track was downloaded all the same
C9_Witness ==
    /\ pc = "done"
    /\ idx = 2
    /\ ~start.root
    /\ artist_dir(tracks[1]) # <<>>
    /\ result = "Succeeded"

\* C10 as stated: a call invokes services if and only if its destination is
\* absent when it starts.
C10_InvokesIffAbsent ==
    (idx > 0 /\ result # "None") => (invoked # <<>> <=> ~start.present)

\* what the amended C10 says of every state
C10_State ==
    idx > 0 =>
        /\ invoked # <<>> => (~start.present /\ ~MkdirFailsAtStart)
        /\ (result # "None" /\ ~start.present /\ ~MkdirFailsAtStart) => invoked # <<>>
        /\ (result # "None" /\ start.present) => (result = "Skipped" /\ ~http)
        /\ start.partial => start.present

\* no step deletes or renames a file
C10_Step == \A p \in DOMAIN files : p \in DOMAIN files'

\* C10, amended: a call invokes services if and only if its destination is
\* absent when it starts and the artist directory can be created; no file is
\* ever deleted or renamed, so a file left by a failed stream is present for
\* every later call for that track, which ends as Skipped without a GET.
C10_PresenceIsTheOnlySignal == [](pc # "off" => C10_State) /\ [][C10_Step]_vars

\* C10, its case: a call was skipped over a file that a failed stream left
C10_Witness ==
    /\ idx > 0
    /\ result = "Skipped"
    /\ start.partial
    /\ Dest \in partials
    /\ invoked = <<>>
    /\ ~http
=============================================================================
